---------------------------- MODULE Spec2Model ----------------------------
(***************************************************************************)
(* A model of src/data_cleaning.py, the NBA defensive-player data          *)
(* cleaning script: the player-name normaliser, the text-to-inches         *)
(* converters, the opponent shooting percentages and the join / rank /     *)
(* sort pipeline that builds the table `data`.                             *)
(*                                                                         *)
(* Text is a sequence of one-character strings.  A non-ASCII character is  *)
(* written as its code point ("U+0107").  A number is a pair <<n, d>>      *)
(* standing for the rational n / d in lowest terms with d > 0.             *)
(***************************************************************************)
EXTENDS Integers, Sequences, FiniteSets, TLC

VARIABLES
    raw,         \* clean_player_column: the table as read from its csv file
    df,          \* clean_player_column: the table being normalised
    first,       \* clean_player_column: the table after the first application
    applied,     \* clean_player_column: number of applications so far
    cstage,      \* converters: the stage of the run (lines 244, 398-401, 407)
    column,      \* converters: the column that holds the cell under study
    parts,       \* converters: the pieces the current cell's text is made of
    out,         \* converters: what the converter returned for the cell
    teams_data,  \* percentages: one row of teams_data
    tstage,      \* percentages: how many of lines 144-147 have run
    pc,          \* pipeline: the statement the script has reached
    data,        \* pipeline: the accumulating table `data`
    fanned       \* pipeline: a merge has met a duplicated right-hand key

vars == <<raw, df, first, applied, cstage, column, parts, out, teams_data, tstage,
          pc, data, fanned>>

normVars == <<raw, df, first, applied>>
convVars == <<cstage, column, parts, out>>
pctVars  == <<teams_data, tstage>>
pipeVars == <<pc, data, fanned>>

(***************************************************************************)
(* Values shared by the parts of the model.                                *)
(***************************************************************************)
NaN == <<0, 0>>    \* pandas' missing value (None in a column): 0 / 0
Inf == <<1, 0>>    \* numpy's x / 0 for x > 0

RECURSIVE GCD(_, _)
GCD(a, b) == IF b = 0 THEN a ELSE GCD(b, a % b)

\* The rational n / d (d > 0, n >= 0) in lowest terms.
Rat(n, d) == LET g == GCD(n, d) IN <<n \div g, d \div g>>

IsNumber(x) == x[2] > 0

RatAdd(x, y) == Rat(x[1] * y[2] + y[1] * x[2], x[2] * y[2])
RatLeq(x, y) == x[1] * y[2] <= y[1] * x[2]

RECURSIVE Pow10(_)
Pow10(k) == IF k = 0 THEN 1 ELSE 10 * Pow10(k - 1)

RECURSIVE Concat(_)
Concat(ss) == IF ss = <<>> THEN <<>> ELSE Head(ss) \o Concat(Tail(ss))

SeqsUpTo(S, n) == UNION {[1..k -> S] : k \in 0..n}


(***************************************************************************)
(* clean_player_column (lines 16-20).                                      *)
(*                                                                         *)
(* A table is [columns, text]: the names of its columns and the cells of   *)
(* its name column ('Player' when it has one, 'Team' otherwise).  Series.  *)
(* apply works cell by cell, so a table of one cell shows all it does.     *)
(***************************************************************************)
MaxNameLen == 3
MaxApply   == 2

\* J c (ASCII letters), space, underscore, apostrophe, c-acute, E-acute,
\* right single quotation mark.
NameChars == {"J", "c", " ", "_", "'", "U+0107", "U+00C9", "U+2019"}

Names == SeqsUpTo(NameChars, MaxNameLen)

\* unidecode's table, for the characters above: ASCII maps to itself.
UnidecodeChar(c) ==
    CASE c = "U+0107" -> <<"c">>
      [] c = "U+00C9" -> <<"E">>
      [] c = "U+00E9" -> <<"e">>
      [] c = "U+2019" -> <<"'">>
      [] OTHER        -> <<c>>

unidecode(x) == Concat([i \in DOMAIN x |-> UnidecodeChar(x[i])])

\* str.lower, for the characters above.
LowerChar(c) ==
    CASE c = "J"      -> "j"
      [] c = "E"      -> "e"
      [] c = "U+00C9" -> "U+00E9"
      [] OTHER        -> c

lower(x) == [i \in DOMAIN x |-> LowerChar(x[i])]

\* \w of a str pattern: a Unicode letter or digit, or the underscore.
IsWordChar(c) ==
    c \in {"J", "j", "c", "E", "e", "_", "U+0107", "U+00C9", "U+00E9"}

\* \s
IsSpaceChar(c) == c = " "

IsPunct(c) == ~(IsWordChar(c) \/ IsSpaceChar(c))

RECURSIVE DropFirstPunct(_)
DropFirstPunct(x) ==
    IF x = <<>> THEN <<>>
    ELSE IF IsPunct(Head(x)) THEN Tail(x)
    ELSE <<Head(x)>> \o DropFirstPunct(Tail(x))

\* re.sub(r'[^\w\s]', '', x, count=1): only the first match is removed.
RemovePunctuationOnce(x) == DropFirstPunct(x)

\* re.sub(r'[^\w\s]', '', x)  (line 19)
RemovePunctuation(x) == SelectSeq(x, LAMBDA c : ~IsPunct(c))

\* The two lambdas of lines 18 and 19, one after the other.
CleanName(x) == RemovePunctuation(lower(unidecode(x)))

clean_player_column(d) ==
    IF "Player" \in d.columns
    THEN [d EXCEPT !.text = [i \in DOMAIN d.text |-> CleanName(d.text[i])]]
    ELSE d

NoTable == [columns |-> {}, text |-> <<>>]

CsvTables ==
    [columns : {{"Player", "Season"}, {"Team", "Season"}},
     text    : {<<>>} \cup {<<n>> : n \in Names}]

\* df = clean_player_column(df)
Clean ==
    /\ applied < MaxApply
    /\ df' = clean_player_column(df)
    /\ first' = IF applied = 0 THEN df' ELSE first
    /\ applied' = applied + 1
    /\ UNCHANGED <<raw, convVars, pctVars, pipeVars>>


(***************************************************************************)
(* The text-to-inches converters: height_to_inches (lines 239-241),        *)
(* convert_height_to_inches (363-378), wingspan_to_inches (380-395).       *)
(*                                                                         *)
(* A cell is [null, text]: null for a missing value (a float NaN, not a    *)
(* str).  A converter returns [raised, value].                             *)
(***************************************************************************)
MaxSpaces == 2

IsDigit(c) == c \in {"0", "1", "2", "3", "4", "5", "6", "7", "8", "9"}

DigitVal(c) ==
    CASE c = "0" -> 0 [] c = "1" -> 1 [] c = "2" -> 2 [] c = "3" -> 3
      [] c = "4" -> 4 [] c = "5" -> 5 [] c = "6" -> 6 [] c = "7" -> 7
      [] c = "8" -> 8 [] c = "9" -> 9

RECURSIVE IntOf(_)
IntOf(ds) ==
    IF ds = <<>> THEN 0
    ELSE 10 * IntOf(SubSeq(ds, 1, Len(ds) - 1)) + DigitVal(ds[Len(ds)])

At(s, i) == IF i >= 1 /\ i <= Len(s) THEN s[i] ELSE "EOF"

RECURSIVE DigitRun(_, _)
DigitRun(s, i) == IF IsDigit(At(s, i)) THEN 1 + DigitRun(s, i + 1) ELSE 0

RECURSIVE SpaceRun(_, _)
SpaceRun(s, i) == IF At(s, i) = " " THEN 1 + SpaceRun(s, i + 1) ELSE 0

Index(s, c) ==
    IF \E i \in DOMAIN s : s[i] = c
    THEN CHOOSE i \in DOMAIN s : s[i] = c /\ \A j \in 1..(i - 1) : s[j] # c
    ELSE 0

\* str.split(sep) for a one-character sep
RECURSIVE Split(_, _)
Split(s, sep) ==
    LET i == Index(s, sep)
    IN  IF i = 0 THEN <<s>>
        ELSE <<SubSeq(s, 1, i - 1)>> \o Split(SubSeq(s, i + 1, Len(s)), sep)

\* str.strip(), which int() applies to its argument
RECURSIVE Strip(_)
Strip(s) ==
    IF s = <<>> THEN s
    ELSE IF Head(s) = " " THEN Strip(Tail(s))
    ELSE IF s[Len(s)] = " " THEN Strip(SubSeq(s, 1, Len(s) - 1))
    ELSE s

\* int(s) succeeds
IsIntText(s) ==
    LET t == Strip(s) IN t # <<>> /\ \A i \in DOMAIN t : IsDigit(t[i])

\* float(s) for s matched by \d+\.?\d*
FloatOf(s) ==
    LET n == DigitRun(s, 1)
        f == SubSeq(s, n + 2, Len(s))
    IN  Rat(IntOf(SubSeq(s, 1, n)) * Pow10(Len(f)) + IntOf(f), Pow10(Len(f)))

Returned(v) == [raised |-> FALSE, value |-> v]
Raised      == [raised |-> TRUE, value |-> NaN]

\* feet * 10 + inches
total_inches_base10(feet, inches) == RatAdd(<<feet * 10, 1>>, inches)

\* total_inches = feet * 12 + inches  (lines 241, 371, 388)
total_inches(feet, inches) == RatAdd(<<feet * 12, 1>>, inches)

height_to_inches(height) ==
    IF height.null THEN Raised            \* float has no split
    ELSE LET p == Split(height.text, "-")
         IN  IF Len(p) # 2 THEN Raised     \* feet, inches = ... cannot unpack
             ELSE IF ~IsIntText(p[1]) \/ ~IsIntText(p[2]) THEN Raised
             ELSE Returned(total_inches(IntOf(Strip(p[1])),
                                        <<IntOf(Strip(p[2])), 1>>))

\* re.match(r"(\d+)' ?(\d+\.?\d*)<closer>", s), or with ' *' for ' ?'.
\* Greedy matching decides every step: no other split of s can match.
MatchFeetInches(s, anySpaces, closer) ==
    LET n1  == DigitRun(s, 1)
        q   == n1 + 1
        sp  == IF anySpaces THEN SpaceRun(s, q + 1)
               ELSE IF At(s, q + 1) = " " THEN 1 ELSE 0
        j   == q + 1 + sp
        n2  == DigitRun(s, j)
        k   == j + n2
        dot == IF At(s, k) = "." THEN 1 ELSE 0
        n3  == DigitRun(s, k + dot)
        e   == k + dot + n3
        ok  == /\ n1 >= 1
               /\ At(s, q) = "'"
               /\ n2 >= 1
               /\ \A i \in DOMAIN closer : At(s, e + i - 1) = closer[i]
    IN  [matched |-> ok,
         feet    |-> IF ok THEN SubSeq(s, 1, n1) ELSE <<>>,
         inches  |-> IF ok THEN SubSeq(s, j, e - 1) ELSE <<>>]

ConvertWith(cell, anySpaces, closer) ==
    IF cell.null THEN Returned(NaN)       \* re.match raises, except returns None
    ELSE LET m == MatchFeetInches(cell.text, anySpaces, closer)
         IN  IF m.matched
             THEN Returned(total_inches(IntOf(m.feet), FloatOf(m.inches)))
             ELSE Returned(NaN)

convert_height_to_inches(height_str) ==
    ConvertWith(height_str, FALSE, <<"'", "'">>)

wingspan_to_inches(wingspan_str) ==
    ConvertWith(wingspan_str, TRUE, <<"\"">>)

\* The cells the converters are given: text put together from these pieces.
FeetPieces   == {<<>>, <<"6">>, <<"N">>, <<"N", "/", "A">>}
SepPieces    == {<<>>, <<"'">>, <<"-">>}
SpacePieces  == {[i \in 1..k |-> " "] : k \in 0..MaxSpaces}
InchPieces   == {<<>>, <<"9">>, <<"1", "0">>}
FracPieces   == {<<>>, <<".">>, <<".", "5">>, <<".", "2", "5">>}
CloserPieces == {<<>>, <<"\"">>, <<"'", "'">>, <<"'">>}
TailPieces   == {<<>>, <<"N">>}

CellPieces ==
    [null : BOOLEAN, feet : FeetPieces, sep : SepPieces, spaces : SpacePieces,
     inch : InchPieces, frac : FracPieces, closer : CloserPieces,
     tail : TailPieces]

NoPieces ==
    [null |-> TRUE, feet |-> <<>>, sep |-> <<>>, spaces |-> <<>>,
     inch |-> <<>>, frac |-> <<>>, closer |-> <<>>, tail |-> <<>>]

\* A missing cell has no text: one value stands for it.
Cells == {p \in CellPieces : p.null => p = NoPieces}

CellOf(p) ==
    [null |-> p.null,
     text |-> p.feet \o p.sep \o p.spaces \o p.inch \o p.frac \o p.closer
              \o p.tail]

\* Cells the converters parse: 6-9, 6' 9.5'' and 6' 9.5".
GoodPieces(sep, spaces, frac, closer) ==
    [null |-> FALSE, feet |-> <<"6">>, sep |-> sep, spaces |-> spaces,
     inch |-> <<"9">>, frac |-> frac, closer |-> closer, tail |-> <<>>]

GoodHeight   == GoodPieces(<<"-">>, <<>>, <<>>, <<>>)
GoodCombine  == GoodPieces(<<"'">>, <<" ">>, <<".", "5">>, <<"'", "'">>)
GoodWingspan == GoodPieces(<<"'">>, <<" ">>, <<".", "5">>, <<"\"">>)

\* the cell of column col
CellIn(col, good) == CellOf(IF column = col THEN parts ELSE good)

\* r: what the converter of column col gave for its cell
Converted(col, r, next) ==
    /\ out' = IF column = col THEN r.value ELSE out
    /\ cstage' = IF r.raised THEN "aborted" ELSE next
    /\ UNCHANGED <<column, parts, normVars, pctVars, pipeVars>>

\* rosters['Height'] = rosters['Height'].apply(height_to_inches)  (line 244)
ConvertRosterHeight ==
    /\ cstage = "start"
    /\ Converted("Height", height_to_inches(CellIn("Height", GoodHeight)),
                 "rosters")

\* combine_metrics[...] = combine_metrics[...].apply(convert_height_to_inches)
\* (lines 398-401)
ConvertCombine ==
    /\ cstage = "rosters"
    /\ Converted("HEIGHT W/O SHOES",
                 convert_height_to_inches(
                     CellIn("HEIGHT W/O SHOES", GoodCombine)),
                 "combine")

\* wingspans['Wingspan'] = wingspans['Wingspan'].apply(wingspan_to_inches)
\* (line 407)
ConvertWingspan ==
    /\ cstage = "combine"
    /\ Converted("Wingspan",
                 wingspan_to_inches(CellIn("Wingspan", GoodWingspan)),
                 "wingspans")

(***************************************************************************)
(* The opponent shooting percentages of teams_data (lines 144-150).        *)
(*                                                                         *)
(* teams_data is one row; the columns are numeric (int64 / float64), so    *)
(* the division is numpy's: x / 0 is inf for x > 0 and NaN for x = 0, and  *)
(* nothing is raised.                                                      *)
(***************************************************************************)
Counts == {0, 45, 100}

\* Series / Series
TrueDivide(a, b) ==
    IF b = 0 THEN (IF a = 0 THEN NaN ELSE Inf) ELSE Rat(a, b)

\* Series * 100
Times100(x) == IF IsNumber(x) THEN Rat(x[1] * 100, x[2]) ELSE x

\* (makes / attempts) * 100
Percentage(makes, attempts) == Times100(TrueDivide(makes, attempts))

TeamRows ==
    [opp_FG : Counts, opp_FGA : Counts, opp_2P : Counts, opp_2PA : Counts,
     opp_3P : Counts, opp_3PA : Counts, opp_FT : Counts, opp_FTA : Counts,
     opp_FG_pct : {NaN}, opp_2P_pct : {NaN}, opp_3P_pct : {NaN},
     opp_FT_pct : {NaN}]

\* line 144
DeriveFGpct ==
    /\ tstage = 0
    /\ teams_data' = [teams_data EXCEPT !.opp_FG_pct =
                          Percentage(teams_data.opp_FG, teams_data.opp_FGA)]
    /\ tstage' = 1
    /\ UNCHANGED <<normVars, convVars, pipeVars>>

\* line 145
Derive2Ppct ==
    /\ tstage = 1
    /\ teams_data' = [teams_data EXCEPT !.opp_2P_pct =
                          Percentage(teams_data.opp_2P, teams_data.opp_2PA)]
    /\ tstage' = 2
    /\ UNCHANGED <<normVars, convVars, pipeVars>>

\* line 146
Derive3Ppct ==
    /\ tstage = 2
    /\ teams_data' = [teams_data EXCEPT !.opp_3P_pct =
                          Percentage(teams_data.opp_3P, teams_data.opp_3PA)]
    /\ tstage' = 3
    /\ UNCHANGED <<normVars, convVars, pipeVars>>

\* line 147
DeriveFTpct ==
    /\ tstage = 3
    /\ teams_data' = [teams_data EXCEPT !.opp_FT_pct =
                          Percentage(teams_data.opp_FT, teams_data.opp_FTA)]
    /\ tstage' = 4
    /\ UNCHANGED <<normVars, convVars, pipeVars>>

\* teams_data.drop(columns=[... 'opp_FG', 'opp_FGA', ...], inplace=True)
\* (lines 150-151)
DropCountColumns ==
    /\ tstage = 4
    /\ teams_data' = [opp_FG_pct |-> teams_data.opp_FG_pct,
                      opp_2P_pct |-> teams_data.opp_2P_pct,
                      opp_3P_pct |-> teams_data.opp_3P_pct,
                      opp_FT_pct |-> teams_data.opp_FT_pct]
    /\ tstage' = 5
    /\ UNCHANGED <<normVars, convVars, pipeVars>>


(***************************************************************************)
(* The pipeline that builds `data` (lines 74-128, 185-198, 247-256,        *)
(* 410-411).                                                               *)
(*                                                                         *)
(* A table is a sequence of rows and a row a record of its columns.  The   *)
(* columns kept are the join keys, the ranked metrics and what they are    *)
(* computed from, 'Pts Won' and 'Position'; a right-hand table's other     *)
(* columns ride along with its rows and are left out.  A column that does  *)
(* not exist yet, or was dropped, holds NaN.  row.rank[c] is the column    *)
(* c + '_rank'.  A season "2023-24" is <<2023, 24>>, and the order of the  *)
(* strings is the order of the pairs.                                      *)
(***************************************************************************)
MaxRows  == 3     \* rows `data` may grow to
MaxRight == 2     \* rows of a right-hand table
MaxVal   == 2     \* metric values are 1..MaxVal

Num(n) == <<n, 1>>

Mul(x, y) ==
    IF IsNumber(x) /\ IsNumber(y) THEN Rat(x[1] * y[1], x[2] * y[2]) ELSE NaN

RatLess(x, y) == x[1] * y[2] < y[1] * x[2]

Players == {"gobert", "jokic"}
Years   == {2022, 2023}

\* f"{x}-{str(int(x)+1)[-2:]}"  (line 236)
SeasonStr(x) == <<x, (x + 1) % 100>>

Seasons == {SeasonStr(y) : y \in Years}

\* s > t for season strings
SeasonGt(s, t) == s[1] > t[1] \/ (s[1] = t[1] /\ s[2] > t[2])

TeamOf(p)     == IF p = "gobert" THEN "MIN" ELSE "DEN"
PositionOf(p) == IF p = "gobert" THEN "C" ELSE "C-F"

Vals == {Num(v) : v \in 1..MaxVal}

higher_is_better ==
    <<"Deflections", "charges", "contested_shots", "BLK", "STL", "DBPM">>

lower_is_better == <<"DFGM", "DFG_PCT", "DFG_pct_2pt", "DFG_pct_3pt">>

Range(f) == {f[i] : i \in DOMAIN f}

Metrics == Range(higher_is_better) \cup Range(lower_is_better)

NoRanks == [c \in Metrics |-> NaN]

\* A row of defense_dashboard, with the columns later statements add.
DashboardRow(p, s, v) ==
    [Player |-> p, Season |-> s, Team |-> TeamOf(p),
     Position |-> PositionOf(p), GP |-> v, DFGM |-> v, DFG_PCT |-> v,
     DFG_pct_2pt |-> NaN, DFG_pct_3pt |-> NaN,
     Deflections |-> NaN, charges |-> NaN, contested_shots |-> NaN,
     PtsWon |-> NaN, BPG |-> NaN, SPG |-> NaN,
     BLK |-> NaN, STL |-> NaN, DBPM |-> NaN,
     rank |-> NoRanks, average_rank |-> NaN]

Injective(f) == \A i, j \in DOMAIN f : f[i] = f[j] => i = j

SameKey(a, b, on) == \A k \in on : a[k] = b[k]

KeysUnique(t, on) ==
    \A i, j \in DOMAIN t : SameKey(t[i], t[j], on) => i = j

PS == {"Player", "Season"}
TS == {"Team", "Season"}
P  == {"Player"}

(***************************************************************************)
(* pd.merge(left, right, on=..., how=...): the rows of left in their       *)
(* order, each once per right-hand row of the same key (in right's order), *)
(* with right's columns `cols`; a left row without a match is kept with    *)
(* NaN in `cols` by how='left' and dropped by how='inner'.                 *)
(***************************************************************************)
Bring(l, r, cols) == [c \in DOMAIN l |-> IF c \in cols THEN r[c] ELSE l[c]]

Unmatched(l, cols) == [c \in DOMAIN l |-> IF c \in cols THEN NaN ELSE l[c]]

Matches(l, right, on) == SelectSeq(right, LAMBDA r : SameKey(l, r, on))

MergeRow(l, right, on, how, cols) ==
    LET ms == Matches(l, right, on)
    IN  IF ms # <<>> THEN [i \in DOMAIN ms |-> Bring(l, ms[i], cols)]
        ELSE IF how = "left" THEN <<Unmatched(l, cols)>>
        ELSE <<>>

\* A merge that puts the rows without a match after the matched ones.
merge_unmatched_last(left, right, on, how, cols) ==
    LET hit  == SelectSeq(left, LAMBDA l : Matches(l, right, on) # <<>>)
        miss == SelectSeq(left, LAMBDA l : Matches(l, right, on) = <<>>)
    IN  Concat([i \in DOMAIN hit |-> MergeRow(hit[i], right, on, how, cols)])
        \o Concat([i \in DOMAIN miss |->
                      MergeRow(miss[i], right, on, how, cols)])

merge(left, right, on, how, cols) ==
    Concat([i \in DOMAIN left |-> MergeRow(left[i], right, on, how, cols)])

FansOut(left, right, on) ==
    \E i \in DOMAIN left : Len(Matches(left[i], right, on)) > 1


(***************************************************************************)
(* The input tables.  The metric columns of one source row hold one value. *)
(* A table the script left-joins for its columns holds every key, one of   *)
(* them possibly twice (CompleteTables); hustle_stats, dpoy_voting and the *)
(* tables joined for their keys hold any MaxRight rows or fewer (Tables).  *)
(***************************************************************************)
Tables(rows) == SeqsUpTo(rows, MaxRight)

\* The tables of MaxRight rows or fewer over the rows keys[1], keys[2], ...,
\* in that order: of a table joined for its keys alone, the order of the
\* rows changes nothing.
KeyTables(keys) ==
    {[i \in DOMAIN f |-> keys[f[i]]] :
        f \in {g \in SeqsUpTo(DOMAIN keys, MaxRight) :
                  \A i \in 1..(Len(g) - 1) : g[i] <= g[i + 1]}}

AllKeys ==
    <<[Player |-> "gobert", Season |-> SeasonStr(2022)],
      [Player |-> "gobert", Season |-> SeasonStr(2023)],
      [Player |-> "jokic",  Season |-> SeasonStr(2022)],
      [Player |-> "jokic",  Season |-> SeasonStr(2023)]>>

PlayerSeasonKeys == Range(AllKeys)

CompleteTables(all) == {all} \cup {all \o <<all[i]>> : i \in DOMAIN all}

\* defense_dashboard: one row per (Player, Season)
DashboardRows ==
    {DashboardRow("gobert", SeasonStr(2023), Num(1)),
     DashboardRow("jokic",  SeasonStr(2023), Num(2)),
     DashboardRow("jokic",  SeasonStr(2022), Num(1))}

DashboardTables ==
    {<<r>> : r \in DashboardRows}
    \cup {t \in DashboardRows \X DashboardRows : t[1] # t[2]}

BoxOutTables == KeyTables(AllKeys)

\* stathead_player.csv
PlayersTables == KeyTables(AllKeys)

Defense2ptRow(k) ==
    [Player |-> k.Player, Season |-> k.Season, DFG_pct_2pt |-> Num(1)]

Defense2ptTables ==
    CompleteTables([i \in DOMAIN AllKeys |-> Defense2ptRow(AllKeys[i])])

Defense3ptRow(k) ==
    [Player |-> k.Player, Season |-> k.Season, DFG_pct_3pt |-> Num(1)]

Defense3ptTables ==
    CompleteTables([i \in DOMAIN AllKeys |-> Defense3ptRow(AllKeys[i])])

HustleTables ==
    Tables({[Player |-> p, Season |-> s, Deflections |-> v, charges |-> v,
             contested_shots |-> v] :
               p \in Players, s \in Seasons, v \in Vals})

\* dpoy_voting holds the players who got votes; BLK and STL are per-game
\* values here
DpoyTables ==
    Tables({[Player |-> "gobert", Season |-> s, PtsWon |-> v, BLK |-> v,
             STL |-> v, DBPM |-> v] :
               s \in Seasons, v \in Vals})

TeamTables ==
    KeyTables([i \in DOMAIN AllKeys |->
                  [Team |-> TeamOf(AllKeys[i].Player),
                   Season |-> AllKeys[i].Season]])

PlayersAdvancedRow(k) ==
    [Player |-> k.Player, Season |-> k.Season, STL |-> Num(1),
     BLK |-> Num(1), DBPM |-> Num(1)]

PlayersAdvancedTables ==
    CompleteTables([i \in DOMAIN AllKeys |-> PlayersAdvancedRow(AllKeys[i])])

\* rosters.csv holds the season's first year
RosterTables ==
    KeyTables(<<[Player |-> "gobert", Season |-> 2022],
                [Player |-> "gobert", Season |-> 2023],
                [Player |-> "jokic",  Season |-> 2022],
                [Player |-> "jokic",  Season |-> 2023]>>)

PlayerKeyTables == KeyTables(<<[Player |-> "gobert"], [Player |-> "jokic"]>>)

(***************************************************************************)
(* Ranking, averaging and sorting.                                         *)
(***************************************************************************)
\* groupby('Season')[c].rank(ascending=...): method 'average', NaN kept
GroupRank(t, i, c, ascending) ==
    LET x     == t[i][c]
        grp   == {j \in DOMAIN t :
                     t[j].Season = t[i].Season /\ IsNumber(t[j][c])}
        ahead == {j \in grp : IF ascending THEN RatLess(t[j][c], x)
                                           ELSE RatLess(x, t[j][c])}
        equal == {j \in grp : t[j][c] = x}
    IN  IF IsNumber(x)
        THEN Rat(2 * Cardinality(ahead) + Cardinality(equal) + 1, 2)
        ELSE NaN

\* The loop body of lines 116 / 119 for the columns cols.
WithRanks(t, cols, ascending) ==
    [i \in DOMAIN t |->
        [t[i] EXCEPT !.rank =
            [c \in Metrics |-> IF c \in Range(cols)
                               THEN GroupRank(t, i, c, ascending)
                               ELSE t[i].rank[c]]]]

RECURSIVE SumOf(_)
SumOf(xs) == IF xs = <<>> THEN Num(0) ELSE RatAdd(Head(xs), SumOf(Tail(xs)))

\* The mean that counts a missing rank as 0.
mean_nan_as_zero(xs) ==
    LET present == SelectSeq(xs, IsNumber)
        total   == SumOf(present)
    IN  Rat(total[1], total[2] * Len(xs))

\* DataFrame.mean(axis=1): NaN is skipped, a row of NaN gives NaN
mean(xs) ==
    LET present == SelectSeq(xs, IsNumber)
        total   == SumOf(present)
    IN  IF present = <<>> THEN NaN
        ELSE Rat(total[1], total[2] * Len(present))

rank_columns == higher_is_better \o lower_is_better

\* rankings = data.filter(regex='_rank$'), one row of it
rankings(row) == [i \in DOMAIN rank_columns |-> row.rank[rank_columns[i]]]

\* Ascending order of average_rank with NaN last (na_position='last').
RankBefore(x, y) == IsNumber(x) /\ (~IsNumber(y) \/ RatLess(x, y))

\* Season ascending, average_rank ascending.
before_season_ascending(a, b) ==
    \/ SeasonGt(b.Season, a.Season)
    \/ a.Season = b.Season /\ RankBefore(a.average_rank, b.average_rank)

\* a sorts strictly before b by ['Season', 'average_rank'],
\* ascending=[False, True]
Before(a, b) ==
    \/ SeasonGt(a.Season, b.Season)
    \/ a.Season = b.Season /\ RankBefore(a.average_rank, b.average_rank)

Insert(sorted, x) ==
    LET later == {i \in DOMAIN sorted : Before(x, sorted[i])}
        k     == IF later = {} THEN Len(sorted) + 1
                 ELSE CHOOSE i \in later : \A j \in later : i <= j
    IN  SubSeq(sorted, 1, k - 1) \o <<x>> \o SubSeq(sorted, k, Len(sorted))

\* A stable sort: rows that compare equal keep their order.
RECURSIVE sort_values(_)
sort_values(t) ==
    IF t = <<>> THEN <<>>
    ELSE Insert(sort_values(SubSeq(t, 1, Len(t) - 1)), t[Len(t)])

Orders(n) == {f \in [1..n -> 1..n] : Injective(f)}

SeasonDescending(t) ==
    \A i \in 1..(Len(t) - 1) : ~SeasonGt(t[i + 1].Season, t[i].Season)


(***************************************************************************)
(* The statements of the pipeline, in the order the script runs them.      *)
(***************************************************************************)
\* data = pd.merge(data, right, on=on, how=how), right drawn from rights
MergeStep(next, rights, on, how, cols) ==
    /\ \E right \in rights :
          LET t == merge(data, right, on, how, cols)
          IN  /\ Len(t) <= MaxRows
              /\ data' = t
              /\ fanned' = (fanned \/ FansOut(data, right, on))
    /\ pc' = next
    /\ UNCHANGED <<normVars, convVars, pctVars>>

Step(next, t) ==
    /\ data' = t
    /\ pc' = next
    /\ UNCHANGED <<fanned, normVars, convVars, pctVars>>

\* line 74
MergeBoxOuts ==
    /\ pc = "merge_box_outs"
    /\ MergeStep("merge_2pt", BoxOutTables, PS, "left", {})

\* lines 75-76
MergeDefense2pt ==
    /\ pc = "merge_2pt"
    /\ MergeStep("merge_3pt", Defense2ptTables, PS, "left",
              {"DFG_pct_2pt"})

\* lines 77-78
MergeDefense3pt ==
    /\ pc = "merge_3pt"
    /\ MergeStep("merge_hustle", Defense3ptTables, PS, "left",
              {"DFG_pct_3pt"})

\* line 79
MergeHustle ==
    /\ pc = "merge_hustle"
    /\ MergeStep("merge_dpoy", HustleTables, PS, "left",
              {"Deflections", "charges", "contested_shots"})

\* line 82
MergeDpoy ==
    /\ pc = "merge_dpoy"
    /\ MergeStep("sort_season", DpoyTables, PS, "left",
              {"PtsWon", "BLK", "STL", "DBPM"})

\* lines 85-86: the second sort is by Season alone and not stable, so the
\* rows of a season end in any order.
SortSeason ==
    /\ pc = "sort_season"
    /\ \E f \in Orders(Len(data)) :
          LET t == [i \in DOMAIN data |-> data[f[i]]]
          IN  SeasonDescending(t) /\ data' = t
    /\ pc' = "totals"
    /\ UNCHANGED <<fanned, normVars, convVars, pctVars>>

\* lines 89-93: BLK, STL become BPG, SPG; the totals take their names
Totals ==
    /\ pc = "totals"
    /\ Step("rank_higher",
         [i \in DOMAIN data |->
             [data[i] EXCEPT !.BPG = data[i].BLK,
                             !.SPG = data[i].STL,
                             !.BLK = Mul(data[i].BLK, data[i].GP),
                             !.STL = Mul(data[i].STL, data[i].GP)]])

\* lines 115-116
RankHigher ==
    /\ pc = "rank_higher"
    /\ Step("rank_lower", WithRanks(data, higher_is_better, FALSE))

\* lines 118-119
RankLower ==
    /\ pc = "rank_lower"
    /\ Step("average", WithRanks(data, lower_is_better, TRUE))

\* lines 122-126
AverageRank ==
    /\ pc = "average"
    /\ Step("sort_rank",
         [i \in DOMAIN data |->
             [data[i] EXCEPT !.average_rank = mean(rankings(data[i]))]])

\* line 128
SortRank ==
    /\ pc = "sort_rank"
    /\ Step("merge_teams_data", sort_values(data))

\* line 185
MergeTeamsData ==
    /\ pc = "merge_teams_data"
    /\ MergeStep("merge_teams_advanced", TeamTables, TS,
              "left", {})

\* line 187
MergeTeamsAdvanced ==
    /\ pc = "merge_teams_advanced"
    /\ MergeStep("drop", TeamTables, TS, "left", {})

\* line 189
DropColumns ==
    /\ pc = "drop"
    /\ Step("merge_players_advanced",
         [i \in DOMAIN data |->
             [data[i] EXCEPT !.STL = NaN, !.BLK = NaN, !.DBPM = NaN]])

\* lines 192-193
MergePlayersAdvanced ==
    /\ pc = "merge_players_advanced"
    /\ MergeStep("fillna", PlayersAdvancedTables, PS,
              "left", {"STL", "BLK", "DBPM"})

\* lines 196-198
FillNa ==
    /\ pc = "fillna"
    /\ Step("merge_rosters",
         [i \in DOMAIN data |->
             [data[i] EXCEPT !.PtsWon =
                 IF IsNumber(data[i].PtsWon) THEN data[i].PtsWon ELSE Num(0)]])

\* lines 236 and 247, for each table rosters.csv may hold
MergeRosters ==
    /\ pc = "merge_rosters"
    /\ \E csv \in RosterTables :
          LET rosters == [i \in DOMAIN csv |->
                             [csv[i] EXCEPT !.Season = SeasonStr(csv[i].Season)]]
              t       == merge(data, rosters, PS, "inner", {})
          IN  /\ Len(t) <= MaxRows
              /\ data' = t
              /\ fanned' = (fanned \/ FansOut(data, rosters, PS))
    /\ pc' = "merge_players"
    /\ UNCHANGED <<normVars, convVars, pctVars>>

\* line 250
MergePlayers ==
    /\ pc = "merge_players"
    /\ MergeStep("replace", PlayersTables, PS, "inner", {})

\* lines 253-256
Replace ==
    /\ pc = "replace"
    /\ Step("merge_combine",
         [i \in DOMAIN data |->
             [data[i] EXCEPT !.Position =
                 CASE @ = "C-F" -> "C" [] @ = "F-C" -> "F"
                   [] @ = "F-G" -> "F" [] @ = "G-F" -> "G" [] OTHER -> @]])

\* line 410
MergeCombine ==
    /\ pc = "merge_combine"
    /\ MergeStep("merge_wingspans", PlayerKeyTables, P, "left",
              {})

\* line 411
MergeWingspans ==
    /\ pc = "merge_wingspans"
    /\ MergeStep("done", PlayerKeyTables, P, "left", {})

(***************************************************************************)
(* The specifications.                                                     *)
(***************************************************************************)
NormInit ==
    /\ raw \in CsvTables
    /\ df = raw
    /\ first = NoTable
    /\ applied = 0
    /\ cstage = "idle" /\ column = "" /\ parts = NoPieces /\ out = NaN
    /\ teams_data = NaN /\ tstage = 0
    /\ pc = "idle" /\ data = <<>> /\ fanned = FALSE

\* One column holds the cell under study, the others a cell that parses.
ConvInit ==
    /\ cstage = "start"
    /\ column \in {"Height", "HEIGHT W/O SHOES", "Wingspan"}
    /\ parts \in Cells
    /\ out = NaN
    /\ raw = NoTable /\ df = NoTable /\ first = NoTable /\ applied = 0
    /\ teams_data = NaN /\ tstage = 0
    /\ pc = "idle" /\ data = <<>> /\ fanned = FALSE

PctInit ==
    /\ teams_data \in TeamRows
    /\ tstage = 0
    /\ raw = NoTable /\ df = NoTable /\ first = NoTable /\ applied = 0
    /\ cstage = "idle" /\ column = "" /\ parts = NoPieces /\ out = NaN
    /\ pc = "idle" /\ data = <<>> /\ fanned = FALSE

Init ==
    /\ pc = "merge_box_outs"
    /\ data \in DashboardTables
    /\ fanned = FALSE
    /\ raw = NoTable /\ df = NoTable /\ first = NoTable /\ applied = 0
    /\ cstage = "idle" /\ column = "" /\ parts = NoPieces /\ out = NaN
    /\ teams_data = NaN /\ tstage = 0

\* clean_player_column
NormNext == Clean

SpecNorm == NormInit /\ [][NormNext]_vars

\* the converters
ConvNext ==
    \/ ConvertRosterHeight
    \/ ConvertCombine
    \/ ConvertWingspan

SpecConv == ConvInit /\ [][ConvNext]_vars

\* the percentages
PctNext ==
    \/ DeriveFGpct
    \/ Derive2Ppct
    \/ Derive3Ppct
    \/ DeriveFTpct
    \/ DropCountColumns

SpecPct == PctInit /\ [][PctNext]_vars

\* the pipeline
Next ==
    \/ MergeBoxOuts
    \/ MergeDefense2pt
    \/ MergeDefense3pt
    \/ MergeHustle
    \/ MergeDpoy
    \/ SortSeason
    \/ Totals
    \/ RankHigher
    \/ RankLower
    \/ AverageRank
    \/ SortRank
    \/ MergeTeamsData
    \/ MergeTeamsAdvanced
    \/ DropColumns
    \/ MergePlayersAdvanced
    \/ FillNa
    \/ MergeRosters
    \/ MergePlayers
    \/ Replace
    \/ MergeCombine
    \/ MergeWingspans

Spec == Init /\ [][Next]_vars


(***************************************************************************)
(* The properties.                                                         *)
(***************************************************************************)
Cleaned == applied >= 1 /\ "Player" \in df.columns

\* C3: clean_player_column is idempotent: cleaning a cleaned table gives the
\* Player values the first cleaning gave.
C3_CleanIsIdempotent == applied >= 2 => df = first

\* A table whose name holds an accented capital and a typographic
\* apostrophe has been cleaned twice.
C3_Witness ==
    /\ applied = 2
    /\ "Player" \in raw.columns
    /\ \E n \in DOMAIN raw.text :
          /\ \E i \in DOMAIN raw.text[n] : raw.text[n][i] = "U+00C9"
          /\ \E i \in DOMAIN raw.text[n] : raw.text[n][i] = "U+2019"
          /\ df.text[n] = <<"e">>

IsLowerAsciiAlnum(c) ==
    c \in {"a", "b", "c", "d", "e", "f", "g", "h", "i", "j", "k", "l", "m",
           "n", "o", "p", "q", "r", "s", "t", "u", "v", "w", "x", "y", "z"}
    \/ IsDigit(c)

\* C10: every Player value clean_player_column returns holds lowercase ASCII
\* letters, digits and whitespace only: all punctuation, the underscore
\* included, is gone.
C10_OnlyAlnumAndSpace ==
    Cleaned =>
        \A n \in DOMAIN df.text : \A i \in DOMAIN df.text[n] :
            IsLowerAsciiAlnum(df.text[n][i]) \/ IsSpaceChar(df.text[n][i])

\* The converter of the column under study has been given the cell.
Converting(col) ==
    /\ column = col
    /\ \/ cstage = "wingspans"
       \/ cstage = "combine" /\ col # "Wingspan"
       \/ cstage = "rosters" /\ col = "Height"

NoDigit(p) ==
    p.null \/ \A i \in DOMAIN CellOf(p).text : ~IsDigit(CellOf(p).text[i])

\* C4: a cell whose text is not a measurement (it holds no digit, as "N/A",
\* or is missing) never aborts the run, and its converter returns null.
C4_MalformedCellGivesNull ==
    NoDigit(parts) =>
        /\ cstage # "aborted"
        /\ \A col \in {"Height", "HEIGHT W/O SHOES", "Wingspan"} :
              Converting(col) => out = NaN

\* feet, an apostrophe, an optional space, inches with an optional decimal
\* part, and `closer`
FeetInchesForm(p, closer) ==
    /\ ~p.null
    /\ p.feet # <<>> /\ \A i \in DOMAIN p.feet : IsDigit(p.feet[i])
    /\ p.sep = <<"'">>
    /\ Len(p.spaces) <= 1
    /\ p.inch # <<>>
    /\ p.closer = closer
    /\ p.tail = <<>>

\* feet * 12 + inches, from the pieces of the cell
ExpectedInches(p) ==
    LET f == SubSeq(p.frac, 2, Len(p.frac))
        k == Pow10(Len(f))
    IN  Rat((IntOf(p.feet) * 12 + IntOf(p.inch)) * k + IntOf(f), k)

\* C5 as claimed: both converters turn the form 6' 9.5" into
\* feet * 12 + inches.
C5_BothConvertDoubleQuoteForm ==
    \A col \in {"HEIGHT W/O SHOES", "Wingspan"} :
        (Converting(col) /\ FeetInchesForm(parts, <<"\"">>))
            => out = ExpectedInches(parts)

\* C5 as amended: wingspan_to_inches turns the form 6' 9.5" into
\* feet * 12 + inches (6' 9.5" into 81.5); convert_height_to_inches does so
\* for the form closed by two apostrophes, 6' 9.5'', and returns null for
\* the form closed by a double quote.
C5_EachConvertsItsOwnForm ==
    /\ (Converting("Wingspan") /\ FeetInchesForm(parts, <<"\"">>))
           => out = ExpectedInches(parts)
    /\ (Converting("Wingspan") /\ parts = GoodWingspan) => out = <<163, 2>>
    /\ (Converting("HEIGHT W/O SHOES") /\ FeetInchesForm(parts, <<"'", "'">>))
           => out = ExpectedInches(parts)
    /\ (Converting("HEIGHT W/O SHOES") /\ FeetInchesForm(parts, <<"\"">>))
           => out = NaN

\* wingspan_to_inches has been given 6' 9.5" and returned 81.5.
C5_Witness ==
    /\ Converting("Wingspan")
    /\ CellOf(parts).text = <<"6", "'", " ", "9", ".", "5", "\"">>
    /\ out = <<163, 2>>

PctOrNull(makes, attempts, pct) ==
    /\ attempts > 0 => pct = Rat(makes * 100, attempts)
    /\ attempts = 0 => pct = NaN

\* C6: each opponent percentage is makes / attempts * 100 when attempts > 0
\* and null when attempts = 0, whatever makes is.
C6_PercentageOrNull ==
    /\ tstage \in 1..4 =>
          PctOrNull(teams_data.opp_FG, teams_data.opp_FGA,
                    teams_data.opp_FG_pct)
    /\ tstage \in 2..4 =>
          PctOrNull(teams_data.opp_2P, teams_data.opp_2PA,
                    teams_data.opp_2P_pct)
    /\ tstage \in 3..4 =>
          PctOrNull(teams_data.opp_3P, teams_data.opp_3PA,
                    teams_data.opp_3P_pct)
    /\ tstage = 4 =>
          PctOrNull(teams_data.opp_FT, teams_data.opp_FTA,
                    teams_data.opp_FT_pct)

\* C1: no two rows of the table the pipeline outputs have the same
\* (Player, Season).
C1_OutputKeysUnique == pc = "done" => KeysUnique(data, PS)

\* C2: a right-hand table with a repeated join key makes the run fail; the
\* rows of `data` are never fanned out.
C2_DuplicateKeyFailsTheRun == fanned => pc = "failed"

\* row i holds the largest value of column c among the rows of its season
SeasonMax(t, i, c) ==
    /\ IsNumber(t[i][c])
    /\ \A j \in DOMAIN t :
          (t[j].Season = t[i].Season /\ IsNumber(t[j][c]))
              => ~RatLess(t[i][c], t[j][c])

\* C7: in the output, the rows holding a season's largest value of a
\* higher-is-better metric have rank 1 for it, or, k of them being tied,
\* the average (k + 1) / 2 of the positions 1..k.  Stated for the runs in
\* which no join met a repeated key.
C7_SeasonMaxHasTopRank ==
    (pc = "done" /\ ~fanned) =>
        \A c \in Range(higher_is_better) : \A i \in DOMAIN data :
            SeasonMax(data, i, c) =>
                data[i].rank[c] =
                    Rat(Cardinality({j \in DOMAIN data :
                                        /\ data[j].Season = data[i].Season
                                        /\ data[j][c] = data[i][c]}) + 1, 2)

Averaged ==
    pc \notin {"idle", "merge_box_outs", "merge_2pt", "merge_3pt",
               "merge_hustle", "merge_dpoy", "sort_season", "totals",
               "rank_higher", "rank_lower", "average"}

Sorted == Averaged /\ pc # "sort_rank"

Ranked(row) == {c \in Metrics : IsNumber(row.rank[c])}

\* twice the sum of the ranks of the columns cs: ranks are halves
RECURSIVE TwiceRankSum(_, _)
TwiceRankSum(row, cs) ==
    IF cs = {} THEN 0
    ELSE LET c == CHOOSE x \in cs : TRUE
         IN  (2 * row.rank[c][1]) \div row.rank[c][2]
             + TwiceRankSum(row, cs \ {c})

\* C8: average_rank is the arithmetic mean of the row's '_rank' columns,
\* taken over the ranks the row has (null when it has none); a row ranked
\* 1st in every metric has average_rank 1.
C8_AverageRankIsMean ==
    Averaged =>
        \A i \in DOMAIN data :
            LET row == data[i]
                n   == Cardinality(Ranked(row))
            IN  /\ n = 0 => row.average_rank = NaN
                /\ n > 0 => row.average_rank
                                = Rat(TwiceRankSum(row, Ranked(row)), 2 * n)
                /\ (\A c \in Metrics : row.rank[c] = Num(1))
                       => row.average_rank = Num(1)

\* The output holds a row ranked in all ten metrics, not everywhere the
\* same, and a row without some of its ranks.
C8_Witness ==
    /\ pc = "done"
    /\ \E i \in DOMAIN data :
          /\ Ranked(data[i]) = Metrics
          /\ \E c, d \in Metrics : data[i].rank[c] # data[i].rank[d]
    /\ \E i \in DOMAIN data :
          Ranked(data[i]) # Metrics /\ IsNumber(data[i].average_rank)

\* a may stand right before b: a later season, or the same season and an
\* average_rank not above b's
InOrder(a, b) ==
    \/ SeasonGt(a.Season, b.Season)
    \/ /\ a.Season = b.Season
       /\ IsNumber(a.average_rank) /\ IsNumber(b.average_rank)
       /\ RatLeq(a.average_rank, b.average_rank)

=============================================================================
